---- MODULE Spec2Model ----
(***************************************************************************)
(* Identity store (SQLite table / Vercel KV), session resolution and       *)
(* faction assignment of the faction-badge server.                         *)
(*                                                                         *)
(*   Spec        the HTTP handlers over the SQLite store of src/db.js      *)
(*   SpecStores  the two store backends driven in lockstep, one call at a  *)
(*               time, from empty stores                                   *)
(*   SpecKV      the KV backend with calls interleaved at kv get/incr/set  *)
(*   SpecNorm    the two faction normalisation rules on bounded strings    *)
(***************************************************************************)
EXTENDS Integers, Sequences, FiniteSets, TLC

VARIABLES
    database,   \* SQLite: [users: set of rows, seq: AUTOINCREMENT counter]
    kv,         \* Vercel KV: [user: id -> record, gh: githubId -> id, seq]
    session,    \* per browser session: [guestUserId, passportUser]
    last,       \* the last HTTP request and its response
    call,       \* SpecStores: the last store call, with both backends' results
    written,    \* SpecStores: id -> faction of the last successful setUserFaction
    proc,       \* SpecKV: per process, the position and locals of its call
    started     \* SpecKV: number of calls started so far

vars == <<database, kv, session, last, call, written, proc, started>>

----------------------------------------------------------------------------
(* Bounds *)

MaxUsers == 3       \* rows / ids ever allocated
MaxLen == 2         \* length of a raw faction string
MaxCalls == 3       \* store calls started in SpecKV
MaxAccounts == 2    \* rows / ids ever allocated under the HTTP server

----------------------------------------------------------------------------
(* Values *)

Null == "null"                      \* JS null / SQL NULL
None == <<>>                        \* "no row": statement.get() || null
Some(u) == <<u>>

GithubIds == {"g1", "g2"}
Profiles ==
    { [id |-> "g1", username |-> "n1", avatarUrl |-> "u1"],
      [id |-> "g1", username |-> "n2", avatarUrl |-> Null],
      [id |-> "g2", username |-> "n1", avatarUrl |-> "u1"] }
Ids == 1..(MaxUsers + 1)

\* a JS string is the sequence of its characters; Undefined is a missing value
Undefined == <<"undefined">>
Chars == {"a", "A", "b", "B", "1", "2", "C", " "}
Factions == {<<"A">>, <<"B">>, <<"a">>, Undefined}   \* tried on setUserFaction

Row(id, githubId, username, avatarUrl, faction) ==
    [id |-> id, githubId |-> githubId, username |-> username,
     avatarUrl |-> avatarUrl, faction |-> faction]

\* results of a store call
Return(userOpt) ==
    [outcome |-> "return", user |-> userOpt, faction |-> Null, error |-> Null]
ReturnFaction(f) ==
    [outcome |-> "return", user |-> None, faction |-> f, error |-> Null]
Throw(msg) ==
    [outcome |-> "throw", user |-> None, faction |-> Null, error |-> msg]
NoResult ==
    [outcome |-> "none", user |-> None, faction |-> Null, error |-> Null]

----------------------------------------------------------------------------
(* SQLite backend: src/db.js (and the !isVercel branches of the KV module) *)

EmptyDatabase == [users |-> {}, seq |-> 0]

getUserByGithubId(db, githubId) ==
    LET m == {u \in db.users : githubId # Null /\ u.githubId = githubId}
    IN  IF m = {} THEN None ELSE Some(CHOOSE u \in m : TRUE)

getUserById(db, userId) ==
    LET m == {u \in db.users : u.id = userId}
    IN  IF m = {} THEN None ELSE Some(CHOOSE u \in m : TRUE)

\* INSERT INTO users (...) under PRIMARY KEY AUTOINCREMENT and githubId UNIQUE
InsertUser(db, githubId, username, avatarUrl) ==
    IF githubId # Null /\ \E u \in db.users : u.githubId = githubId
    THEN [db |-> db, rowid |-> 0]
    ELSE [db |-> [users |-> db.users \cup
                     {Row(db.seq + 1, githubId, username, avatarUrl, Null)},
                  seq |-> db.seq + 1],
          rowid |-> db.seq + 1]

createOrUpdateUser(db, profile) ==
    LET existingUser == getUserByGithubId(db, profile.id) IN
    IF existingUser # None
    THEN LET db2 == [db EXCEPT !.users =
                        {IF u.githubId = profile.id
                         THEN [u EXCEPT !.username = profile.username,
                                        !.avatarUrl = profile.avatarUrl]
                         ELSE u : u \in db.users}]
         IN  [store |-> db2, res |-> Return(getUserByGithubId(db2, profile.id))]
    ELSE LET ins == InsertUser(db, profile.id, profile.username, profile.avatarUrl)
         IN  IF ins.rowid = 0
             THEN [store |-> db, res |-> Throw("SQLITE_CONSTRAINT")]
             ELSE [store |-> ins.db, res |-> Return(getUserById(ins.db, ins.rowid))]

createAnonymousUser(db, username) ==
    LET ins == InsertUser(db, Null, username, Null)
    IN  [store |-> ins.db, res |-> Return(getUserById(ins.db, ins.rowid))]

\* faction === 'A' ? 'A' : faction === 'B' ? 'B' : null
StoreNormalized(faction) ==
    IF faction = <<"A">> THEN "A" ELSE IF faction = <<"B">> THEN "B" ELSE Null

setUserFaction_noWhere(db, userId, faction) ==
    LET normalized == StoreNormalized(faction) IN
    IF normalized = Null
    THEN [store |-> db, res |-> Throw("Invalid faction")]
    ELSE LET db2 == [db EXCEPT !.users =
                        {[u EXCEPT !.faction = normalized] : u \in db.users}]
         IN  [store |-> db2, res |-> Return(getUserById(db2, userId))]

setUserFaction(db, userId, faction) ==
    LET normalized == StoreNormalized(faction) IN
    IF normalized = Null
    THEN [store |-> db, res |-> Throw("Invalid faction")]
    ELSE LET db2 == [db EXCEPT !.users =
                        {IF u.id = userId THEN [u EXCEPT !.faction = normalized]
                         ELSE u : u \in db.users}]
         IN  [store |-> db2, res |-> Return(getUserById(db2, userId))]

getFactionByUserId(db, userId) ==
    LET row == getUserById(db, userId)
    IN  IF row # None THEN row[1].faction ELSE Null

----------------------------------------------------------------------------
(* KV backend, one call at a time: the isVercel branches *)

EmptyKv == [user |-> <<>>, gh |-> <<>>, seq |-> 0]

\* kv.get(userKey(id)), kv.get(ghIndexKey(githubId))
kvGetUser(k, id) == IF id \in DOMAIN k.user THEN Some(k.user[id]) ELSE None
kvGetIndex(k, githubId) == IF githubId \in DOMAIN k.gh THEN k.gh[githubId] ELSE 0
\* kv.set(userKey(id), record), kv.set(ghIndexKey(githubId), id), kv.incr(seqKey)
kvSetUser(k, id, record) ==
    [k EXCEPT !.user = [i \in DOMAIN k.user \cup {id} |->
                            IF i = id THEN record ELSE k.user[i]]]
kvSetIndex(k, githubId, id) ==
    [k EXCEPT !.gh = [g \in DOMAIN k.gh \cup {githubId} |->
                            IF g = githubId THEN id ELSE k.gh[g]]]
kvIncr(k) == [k EXCEPT !.seq = k.seq + 1]

KvGetUserByGithubId(k, githubId) ==
    LET id == kvGetIndex(k, githubId)
    IN  IF id # 0 THEN kvGetUser(k, id) ELSE None

KvGetUserById(k, userId) == kvGetUser(k, userId)

KvCreateOrUpdateUser_noIndexLookup(k, profile) ==
    LET k1 == kvIncr(k)
        newId == k1.seq
        created == Row(newId, profile.id, profile.username, profile.avatarUrl, Null)
    IN  [store |-> kvSetIndex(kvSetUser(k1, newId, created), profile.id, newId),
         res |-> Return(Some(created))]

KvCreateOrUpdateUser(k, profile) ==
    LET existingId == kvGetIndex(k, profile.id) IN
    IF existingId # 0
    THEN LET user == kvGetUser(k, existingId)
             updated == [user[1] EXCEPT !.username = profile.username,
                                        !.avatarUrl = profile.avatarUrl]
         IN  [store |-> kvSetUser(k, existingId, updated),
              res |-> Return(Some(updated))]
    ELSE LET k1 == kvIncr(k)
             newId == k1.seq
             created == Row(newId, profile.id, profile.username,
                            profile.avatarUrl, Null)
         IN  [store |-> kvSetIndex(kvSetUser(k1, newId, created), profile.id, newId),
              res |-> Return(Some(created))]

KvCreateAnonymousUser(k, username) ==
    LET k1 == kvIncr(k)
        newId == k1.seq
        created == Row(newId, Null, username, Null, Null)
    IN  [store |-> kvSetUser(k1, newId, created), res |-> Return(Some(created))]

KvSetUserFaction_noMissingCheck(k, userId, faction) ==
    LET normalized == StoreNormalized(faction) IN
    IF normalized = Null
    THEN [store |-> k, res |-> Throw("Invalid faction")]
    ELSE LET user == kvGetUser(k, userId)
             updated == IF user = None
                        THEN Row(userId, Null, Null, Null, normalized)
                        ELSE [user[1] EXCEPT !.faction = normalized]
         IN  [store |-> kvSetUser(k, userId, updated),
              res |-> Return(Some(updated))]

KvSetUserFaction(k, userId, faction) ==
    LET normalized == StoreNormalized(faction) IN
    IF normalized = Null
    THEN [store |-> k, res |-> Throw("Invalid faction")]
    ELSE LET user == kvGetUser(k, userId) IN
         IF user = None
         THEN [store |-> k, res |-> Return(None)]
         ELSE LET updated == [user[1] EXCEPT !.faction = normalized]
              IN  [store |-> kvSetUser(k, userId, updated),
                   res |-> Return(Some(updated))]

KvGetFactionByUserId(k, userId) ==
    LET user == kvGetUser(k, userId)
    IN  IF user # None THEN user[1].faction ELSE Null

----------------------------------------------------------------------------
(* Badge rendering and the badge/image lookup by id *)

\* renderBadgeSvg: the fill colour that tells the three variants apart
renderBadgeSvg(faction) ==
    IF faction = "A" THEN "#d65555"
    ELSE IF faction = "B" THEN "#4e8dd6" ELSE "#9e9e9e"

\* GET /badge/:id.svg, /image/:id.svg and the id branch of GET /badge, /image
BadgeById(faction) == renderBadgeSvg(faction)

----------------------------------------------------------------------------
(* SpecStores: both backends from empty, the same call made on each *)

NoProfile == [id |-> Null, username |-> Null, avatarUrl |-> Null]
NoCall ==
    [op |-> "none", profile |-> NoProfile, id |-> 0, faction |-> Undefined,
     sql |-> NoResult, kv |-> NoResult]
NoSession == [guestUserId |-> 0, passportUser |-> 0]
NoRequest ==
    [op |-> "none", sess |-> "none", raw |-> Undefined, id |-> 0, status |-> 0,
     authenticated |-> FALSE, userId |-> 0, faction |-> Null, badge |-> Null]
Idle ==
    [pc |-> "idle", op |-> "none", profile |-> NoProfile, id |-> 0,
     faction |-> Null, existingId |-> 0, user |-> None, newId |-> 0,
     res |-> NoResult, overlapped |-> FALSE]

Sessions == {"s1", "s2"}
Procs == {"p1", "p2"}

ServerIdle == /\ session = [s \in Sessions |-> NoSession]
              /\ last = NoRequest
StoresIdle == /\ call = NoCall
              /\ written = [i \in Ids |-> Null]
ProcsIdle == /\ proc = [p \in Procs |-> Idle]
             /\ started = 0

InitStores ==
    /\ database = EmptyDatabase
    /\ kv = EmptyKv
    /\ StoresIdle
    /\ ServerIdle
    /\ ProcsIdle

\* both backends take the call; the results are kept side by side
Both(op, profile, id, faction, s, k) ==
    /\ database' = s.store
    /\ kv' = k.store
    /\ call' = [op |-> op, profile |-> profile, id |-> id, faction |-> faction,
                sql |-> s.res, kv |-> k.res]
    /\ UNCHANGED <<session, last, proc, started>>

CallCreateOrUpdate(profile) ==
    /\ getUserByGithubId(database, profile.id) # None \/ database.seq < MaxUsers
    /\ kvGetIndex(kv, profile.id) # 0 \/ kv.seq < MaxUsers
    /\ Both("createOrUpdate", profile, 0, Undefined,
            createOrUpdateUser(database, profile),
            KvCreateOrUpdateUser(kv, profile))
    /\ UNCHANGED written

CallCreateGuest ==
    /\ database.seq < MaxUsers
    /\ kv.seq < MaxUsers
    /\ Both("createGuest", NoProfile, 0, Undefined,
            createAnonymousUser(database, "Guest"),
            KvCreateAnonymousUser(kv, "Guest"))
    /\ UNCHANGED written

CallSetFaction(id, faction) ==
    LET s == setUserFaction(database, id, faction)
        k == KvSetUserFaction(kv, id, faction)
    IN  /\ Both("setFaction", NoProfile, id, faction, s, k)
        /\ written' = IF s.res.user # None \/ k.res.user # None
                      THEN [written EXCEPT ![id] = StoreNormalized(faction)]
                      ELSE written

CallGetFaction(id) ==
    /\ Both("getFaction", NoProfile, id, Undefined,
            [store |-> database,
             res |-> ReturnFaction(getFactionByUserId(database, id))],
            [store |-> kv, res |-> ReturnFaction(KvGetFactionByUserId(kv, id))])
    /\ UNCHANGED written

CallFindById(id) ==
    /\ Both("findById", NoProfile, id, Undefined,
            [store |-> database, res |-> Return(getUserById(database, id))],
            [store |-> kv, res |-> Return(KvGetUserById(kv, id))])
    /\ UNCHANGED written

CallFindByExternalId(githubId) ==
    /\ Both("findByExternalId", [NoProfile EXCEPT !.id = githubId], 0, Undefined,
            [store |-> database,
             res |-> Return(getUserByGithubId(database, githubId))],
            [store |-> kv, res |-> Return(KvGetUserByGithubId(kv, githubId))])
    /\ UNCHANGED written

NextStores ==
    \/ \E profile \in Profiles : CallCreateOrUpdate(profile)
    \/ CallCreateGuest
    \/ \E id \in Ids, f \in Factions : CallSetFaction(id, f)
    \/ \E id \in Ids : CallGetFaction(id)
    \/ \E id \in Ids : CallFindById(id)
    \/ \E g \in GithubIds : CallFindByExternalId(g)

SpecStores == InitStores /\ [][NextStores]_vars

----------------------------------------------------------------------------
(* Claims about the stores, one call at a time (SpecStores) *)

SqlWith(db, githubId) == {u \in db.users : u.githubId = githubId}
KvWith(k, githubId) == {i \in DOMAIN k.user : k.user[i].githubId = githubId}
Overwritten(u, profile) ==
    Row(u.id, u.githubId, profile.username, profile.avatarUrl, u.faction)

\* C1: createOrUpdate with an externalId that a stored record already has
\* creates no record, keeps that record's id and faction and overwrites its
\* displayName and avatarRef, in both backends; and at most one record ever
\* carries a given externalId.
C1_ReauthUpdatesInPlace ==
    [][ /\ \A g \in GithubIds :
              /\ Cardinality(SqlWith(database', g)) <= 1
              /\ Cardinality(KvWith(kv', g)) <= 1
        /\ \A u \in database.users :
              (call'.op = "createOrUpdate" /\ u.githubId = call'.profile.id) =>
                 /\ {x.id : x \in database'.users} = {x.id : x \in database.users}
                 /\ call'.sql = Return(Some(Overwritten(u, call'.profile)))
                 /\ getUserById(database', u.id) = call'.sql.user
        /\ \A i \in DOMAIN kv.user :
              (call'.op = "createOrUpdate"
                 /\ kv.user[i].githubId = call'.profile.id) =>
                 /\ DOMAIN kv'.user = DOMAIN kv.user
                 /\ call'.kv = Return(Some(Overwritten(kv.user[i], call'.profile)))
                 /\ kvGetUser(kv', i) = call'.kv.user
      ]_vars

\* a re-authentication that found its record with a faction and other rows around
C1_Witness ==
    /\ call.op = "createOrUpdate"
    /\ call.sql.user # None /\ call.kv.user # None
    /\ call.sql.user[1].faction = "A" /\ call.kv.user[1].faction = "A"
    /\ call.sql.user[1].username = "n2"
    /\ Cardinality(database.users) >= 2

\* C2: after a successful setFaction(id, f), every read of that id's faction
\* (getFaction and the badge lookup by id) gives f until the next successful
\* setFaction on the same id, whatever other calls run in between.
C2_FactionReadsLastWrite ==
    \A id \in Ids :
        written[id] # Null =>
            /\ getFactionByUserId(database, id) = written[id]
            /\ KvGetFactionByUserId(kv, id) = written[id]
            /\ BadgeById(getFactionByUserId(database, id))
                  = renderBadgeSvg(written[id])
            /\ BadgeById(KvGetFactionByUserId(kv, id)) = renderBadgeSvg(written[id])

\* two ids hold different factions and the last call was a re-authentication
\* or a rejected assignment
C2_Witness ==
    /\ \E i, j \in Ids : written[i] = "A" /\ written[j] = "B"
    /\ \/ call.op = "createOrUpdate" /\ call.sql.user[1].faction # Null
       \/ call.op = "setFaction" /\ call.sql.outcome = "throw"

\* C5: setFaction(id, f) with f in {A, B} and an id no record has fails with an
\* error (NotFound) rather than returning none, in both backends.
C5_MissingIdFails ==
    (/\ call.op = "setFaction"
     /\ call.faction \in {<<"A">>, <<"B">>}
     /\ getUserById(database, call.id) = None
     /\ kvGetUser(kv, call.id) = None)
        => (call.sql.outcome = "throw" /\ call.kv.outcome = "throw")

\* C8: from empty stores, the SQLite and the KV implementation give the same
\* result at every step of every sequence of calls.
C8_BackendsAgree == call.sql = call.kv

\* a call that returned the second user, with a faction, from both backends
C8_Witness ==
    /\ call.op \in {"createOrUpdate", "setFaction", "findById"}
    /\ call.kv.user # None
    /\ call.kv.user[1].id = 2
    /\ call.kv.user[1].faction = "B"
    /\ call.sql.user # None

----------------------------------------------------------------------------
(* SpecKV: the KV branches as async functions; every kv.get, kv.incr and   *)
(* kv.set is one atomic step and the calls of different processes          *)
(* interleave between them.                                                *)

InitKV ==
    /\ database = EmptyDatabase
    /\ kv = EmptyKv
    /\ StoresIdle
    /\ ServerIdle
    /\ ProcsIdle

Active(p) == proc[p].pc \notin {"idle", "done"}
KvFrame == UNCHANGED <<database, session, last, call, written>>

\* a call begins: it overlaps every call that is under way
Begin(p, fresh) ==
    /\ ~Active(p)
    /\ started < MaxCalls
    /\ started' = started + 1
    /\ proc' = [q \in Procs |->
                  IF q = p
                  THEN [fresh EXCEPT !.overlapped = \E r \in Procs \ {p} : Active(r)]
                  ELSE IF Active(q) THEN [proc[q] EXCEPT !.overlapped = TRUE]
                  ELSE proc[q]]
    /\ UNCHANGED kv
    /\ KvFrame

Step(p, at, k, next) ==
    /\ proc[p].pc = at
    /\ kv' = k
    /\ proc' = [proc EXCEPT ![p] = next]
    /\ UNCHANGED started
    /\ KvFrame

BeginCreateOrUpdate(p, profile) ==
    Begin(p, [Idle EXCEPT !.pc = "getIndex", !.op = "createOrUpdate",
                          !.profile = profile])

\* const existingId = await kv.get(ghIndexKey(profile.id))
CreateOrUpdateGetIndex(p) ==
    LET existingId == kvGetIndex(kv, proc[p].profile.id)
    IN  Step(p, "getIndex", kv,
             [proc[p] EXCEPT !.existingId = existingId,
                             !.pc = IF existingId # 0 THEN "getUser" ELSE "incr"])

\* const user = await kv.get(userKey(existingId))
CreateOrUpdateGetUser(p) ==
    Step(p, "getUser", kv,
         [proc[p] EXCEPT !.user = kvGetUser(kv, proc[p].existingId),
                         !.pc = "setUpdated"])

\* updated = {...user, username, avatarUrl}; await kv.set(userKey(existingId), updated)
CreateOrUpdateSetUpdated(p) ==
    LET user == IF proc[p].user = None
                THEN Row(0, Null, Null, Null, Null) ELSE proc[p].user[1]
        updated == [user EXCEPT !.username = proc[p].profile.username,
                                !.avatarUrl = proc[p].profile.avatarUrl]
    IN  Step(p, "setUpdated", kvSetUser(kv, proc[p].existingId, updated),
             [proc[p] EXCEPT !.res = Return(Some(updated)), !.pc = "done"])

\* const newId = await kv.incr(seqKey)
CreateOrUpdateIncr(p) ==
    Step(p, "incr", kvIncr(kv),
         [proc[p] EXCEPT !.newId = kv.seq + 1, !.pc = "setCreated"])

\* await kv.set(userKey(newId), created)
CreateOrUpdateSetCreated(p) ==
    LET created == Row(proc[p].newId, proc[p].profile.id, proc[p].profile.username,
                       proc[p].profile.avatarUrl, Null)
    IN  Step(p, "setCreated", kvSetUser(kv, proc[p].newId, created),
             [proc[p] EXCEPT !.user = Some(created), !.pc = "setIndex"])

\* await kv.set(ghIndexKey(profile.id), newId); return created
CreateOrUpdateSetIndex(p) ==
    Step(p, "setIndex", kvSetIndex(kv, proc[p].profile.id, proc[p].newId),
         [proc[p] EXCEPT !.res = Return(proc[p].user), !.pc = "done"])

BeginCreateGuest(p) ==
    Begin(p, [Idle EXCEPT !.pc = "guestIncr", !.op = "createGuest"])

CreateGuestIncr(p) ==
    Step(p, "guestIncr", kvIncr(kv),
         [proc[p] EXCEPT !.newId = kv.seq + 1, !.pc = "guestSet"])

CreateGuestSet(p) ==
    LET created == Row(proc[p].newId, Null, "Guest", Null, Null)
    IN  Step(p, "guestSet", kvSetUser(kv, proc[p].newId, created),
             [proc[p] EXCEPT !.res = Return(Some(created)), !.pc = "done"])

\* the validation runs before the first await: an invalid faction rejects at once
BeginSetFaction(p, id, faction) ==
    Begin(p, IF StoreNormalized(faction) = Null
             THEN [Idle EXCEPT !.pc = "done", !.op = "setFaction", !.id = id,
                               !.res = Throw("Invalid faction")]
             ELSE [Idle EXCEPT !.pc = "factionGet", !.op = "setFaction", !.id = id,
                               !.faction = StoreNormalized(faction)])

\* const user = await kv.get(userKey(userId)); if (!user) return null
SetFactionGetUser(p) ==
    LET user == kvGetUser(kv, proc[p].id)
    IN  Step(p, "factionGet", kv,
             IF user = None
             THEN [proc[p] EXCEPT !.res = Return(None), !.pc = "done"]
             ELSE [proc[p] EXCEPT !.user = user, !.pc = "factionSet"])

\* updated = {...user, faction: normalized}; await kv.set(userKey(userId), updated)
SetFactionSet(p) ==
    LET updated == [proc[p].user[1] EXCEPT !.faction = proc[p].faction]
    IN  Step(p, "factionSet", kvSetUser(kv, proc[p].id, updated),
             [proc[p] EXCEPT !.res = Return(Some(updated)), !.pc = "done"])

NextKV ==
    \E p \in Procs :
        \/ \E profile \in Profiles : BeginCreateOrUpdate(p, profile)
        \/ CreateOrUpdateGetIndex(p)
        \/ CreateOrUpdateGetUser(p)
        \/ CreateOrUpdateSetUpdated(p)
        \/ CreateOrUpdateIncr(p)
        \/ CreateOrUpdateSetCreated(p)
        \/ CreateOrUpdateSetIndex(p)
        \/ BeginCreateGuest(p)
        \/ CreateGuestIncr(p)
        \/ CreateGuestSet(p)
        \/ \E id \in 1..MaxCalls, f \in Factions : BeginSetFaction(p, id, f)
        \/ SetFactionGetUser(p)
        \/ SetFactionSet(p)

SpecKV == InitKV /\ [][NextKV]_vars

\* C9: under every interleaving of createOrUpdate calls on the KV backend, at
\* most one user record carries a given externalId, and once the calls have
\* returned the index entry of that externalId points to it.
C9_KvExternalIdUnique ==
    \A g \in GithubIds :
        /\ Cardinality(KvWith(kv, g)) <= 1
        /\ ((\A p \in Procs : ~Active(p)) /\ KvWith(kv, g) # {})
              => kvGetIndex(kv, g) \in KvWith(kv, g)

\* C10: when a re-authentication of a user and a setFaction on that user's id
\* overlap on the KV backend, the stored faction after both have returned is
\* the one setFaction wrote.
C10_KvReauthKeepsFaction ==
    \A p, q \in Procs :
        (/\ proc[p].pc = "done" /\ proc[q].pc = "done"
         /\ proc[p].overlapped /\ proc[q].overlapped
         /\ proc[p].op = "createOrUpdate" /\ proc[p].existingId # 0
         /\ proc[q].op = "setFaction" /\ proc[q].res.user # None
         /\ proc[q].id = proc[p].existingId)
            => KvGetFactionByUserId(kv, proc[q].id) = proc[q].faction

----------------------------------------------------------------------------
(* The HTTP server over the SQLite store *)

\* String(input).trim(): leading and trailing blanks dropped
RECURSIVE TrimStart(_)
TrimStart(str) ==
    IF str # <<>> /\ Head(str) = " " THEN TrimStart(Tail(str)) ELSE str
RECURSIVE TrimEnd(_)
TrimEnd(str) ==
    IF str # <<>> /\ str[Len(str)] = " "
    THEN TrimEnd(SubSeq(str, 1, Len(str) - 1)) ELSE str
Trim(str) == TrimEnd(TrimStart(str))

\* .toUpperCase() on the characters in use
UpperChar(c) == IF c = "a" THEN "A" ELSE IF c = "b" THEN "B" ELSE c
ToUpperCase(str) == [i \in 1..Len(str) |-> UpperChar(str[i])]

normalizeFaction_caseSensitive(input) ==
    IF input = Undefined \/ input = <<>> THEN Null
    ELSE LET v == Trim(input)
         IN  IF v = <<"A">> \/ v = <<"1">> THEN "A"
             ELSE IF v = <<"B">> \/ v = <<"2">> THEN "B"
             ELSE Null

normalizeFaction(input) ==
    IF input = Undefined \/ input = <<>> THEN Null
    ELSE LET v == ToUpperCase(Trim(input))
         IN  IF v = <<"A">> \/ v = <<"1">> THEN "A"
             ELSE IF v = <<"B">> \/ v = <<"2">> THEN "B"
             ELSE Null

FactionAccepted_anyLetterForm(faction) == normalizeFaction(faction) # Null

\* ['A', 'B'].includes(faction)
FactionAccepted(faction) == faction \in {<<"A">>, <<"B">>}

\* passport.session(): the serialized id is loaded with getUserById; when the
\* user is gone the login is dropped from the session
Deserialized(db, sess) ==
    IF sess.passportUser # 0 /\ getUserById(db, sess.passportUser) = None
    THEN [sess EXCEPT !.passportUser = 0] ELSE sess

\* req.isAuthenticated && req.isAuthenticated()
IsAuthenticated(db, sess) ==
    sess.passportUser # 0 /\ getUserById(db, sess.passportUser) # None

NeedsGuest_always(sess) == TRUE

\* !req.session.guestUserId
NeedsGuest(sess) == sess.guestUserId = 0

\* user.faction || null
OrNull(faction) == IF faction = "" THEN Null ELSE faction

Respond(op, s, raw, id, status, authenticated, userId, faction) ==
    [op |-> op, sess |-> s, raw |-> raw, id |-> id, status |-> status,
     authenticated |-> authenticated, userId |-> userId, faction |-> faction,
     badge |-> Null]

ServerFrame == UNCHANGED <<kv, call, written, proc, started>>

\* app.get('/api/me')
GetMe(s) ==
    LET sess == Deserialized(database, session[s]) IN
    /\ IF IsAuthenticated(database, sess)
       THEN LET user == getUserById(database, sess.passportUser)[1] IN
            /\ database' = database
            /\ session' = [session EXCEPT ![s] = sess]
            /\ last' = Respond("GET /api/me", s, Undefined, 0, 200, TRUE,
                               user.id, OrNull(user.faction))
       ELSE LET made == IF NeedsGuest(sess)
                        THEN createAnonymousUser(database, "Guest")
                        ELSE [store |-> database, res |-> NoResult]
                sess2 == IF NeedsGuest(sess)
                         THEN [sess EXCEPT !.guestUserId = made.res.user[1].id]
                         ELSE sess
                guest == getUserById(made.store, sess2.guestUserId)
            IN  /\ NeedsGuest(sess) => database.seq < MaxAccounts
                /\ database' = made.store
                /\ session' = [session EXCEPT ![s] = sess2]
                /\ last' = IF guest = None
                           \* guest.id on null: TypeError, the final handler's 500
                           THEN Respond("GET /api/me", s, Undefined, 0, 500,
                                        FALSE, 0, Null)
                           ELSE Respond("GET /api/me", s, Undefined, 0, 200,
                                        FALSE, guest[1].id, OrNull(guest[1].faction))
    /\ ServerFrame

\* app.post('/api/faction')
PostFaction(s, faction) ==
    LET sess == Deserialized(database, session[s]) IN
    /\ IF ~FactionAccepted(faction)
       THEN /\ database' = database
            /\ session' = [session EXCEPT ![s] = sess]
            /\ last' = Respond("POST /api/faction", s, faction, 0, 400,
                               IsAuthenticated(database, sess), 0, Null)
       ELSE LET auth == IsAuthenticated(database, sess)
                made == IF ~auth /\ NeedsGuest(sess)
                        THEN createAnonymousUser(database, "Guest")
                        ELSE [store |-> database, res |-> NoResult]
                sess2 == IF ~auth /\ NeedsGuest(sess)
                         THEN [sess EXCEPT !.guestUserId = made.res.user[1].id]
                         ELSE sess
                targetUserId == IF auth THEN sess.passportUser ELSE sess2.guestUserId
                set == setUserFaction(made.store, targetUserId, faction)
                updated == set.res.user
            IN  /\ (~auth /\ NeedsGuest(sess)) => database.seq < MaxAccounts
                /\ database' = set.store
                /\ session' = [session EXCEPT ![s] = sess2]
                /\ last' = IF set.res.outcome = "throw" \/ updated = None
                           \* a throw, or updated.id on null: the catch's 500
                           THEN Respond("POST /api/faction", s, faction, 0, 500,
                                        auth, 0, Null)
                           ELSE Respond("POST /api/faction", s, faction, 0, 200,
                                        auth, updated[1].id, updated[1].faction)
    /\ ServerFrame

\* app.get('/badge') and app.get('/image'): ?faction= / ?f= first, then ?id=
\* (id 0: absent or not a number)
GetBadge(f, id) ==
    LET n == normalizeFaction(f)
        faction == IF n # Null THEN n
                   ELSE IF id # 0 THEN getFactionByUserId(database, id) ELSE Null
    IN  /\ last' = [Respond("GET /badge", "none", f, id, 200, FALSE, 0, faction)
                       EXCEPT !.badge = renderBadgeSvg(faction)]
        /\ UNCHANGED <<database, session>>
        /\ ServerFrame

\* app.get('/badge/faction/:f.svg') and app.get('/image/faction/:f.svg')
GetBadgeFaction(f) ==
    LET faction == normalizeFaction(f)
    IN  /\ last' = [Respond("GET /badge/faction", "none", f, 0, 200, FALSE, 0,
                            faction)
                       EXCEPT !.badge = renderBadgeSvg(faction)]
        /\ UNCHANGED <<database, session>>
        /\ ServerFrame

\* the GitHub strategy's verify callback and req.login; whether the session
\* keeps its other fields across the login depends on the passport version
AuthCallback(s, profile, keepSession) ==
    LET made == createOrUpdateUser(database, profile) IN
    /\ getUserByGithubId(database, profile.id) # None
          \/ database.seq < MaxAccounts
    /\ made.res.outcome = "return"
    /\ database' = made.store
    /\ session' = [session EXCEPT ![s] =
                      [guestUserId |-> IF keepSession THEN session[s].guestUserId
                                       ELSE 0,
                       passportUser |-> made.res.user[1].id]]
    /\ last' = Respond("GET /auth/github/callback", s, Undefined, 0, 302, TRUE,
                       made.res.user[1].id, Null)
    /\ ServerFrame

\* app.post('/logout')
Logout(s, keepSession) ==
    /\ database' = database
    /\ session' = [session EXCEPT ![s] =
                      [guestUserId |-> IF keepSession THEN session[s].guestUserId
                                       ELSE 0,
                       passportUser |-> 0]]
    /\ last' = Respond("POST /logout", s, Undefined, 0, 200, FALSE, 0, Null)
    /\ ServerFrame

\* the users table is emptied under the running server (data.db replaced,
\* /tmp/data.db of a serverless instance lost): the store was reset
StoreReset ==
    /\ database.users # {}
    /\ database' = EmptyDatabase
    /\ last' = Respond("reset", "none", Undefined, 0, 0, FALSE, 0, Null)
    /\ UNCHANGED session
    /\ ServerFrame

JsonInputs == {<<"A">>, <<"a">>, Undefined}
Logins == {p \in Profiles : p.id = "g2"}

Init ==
    /\ database = EmptyDatabase
    /\ kv = EmptyKv
    /\ StoresIdle
    /\ ServerIdle
    /\ ProcsIdle

Next ==
    \/ \E s \in Sessions : GetMe(s)
    \/ \E s \in Sessions, faction \in JsonInputs : PostFaction(s, faction)
    \/ \E s \in Sessions, profile \in Logins, keep \in BOOLEAN :
          AuthCallback(s, profile, keep)
    \/ \E s \in Sessions, keep \in BOOLEAN : Logout(s, keep)
    \/ StoreReset

Spec == Init /\ [][Next]_vars

----------------------------------------------------------------------------
(* SpecNorm: the two normalisation rules on every string up to MaxLen *)

RawStrings ==
    UNION {[1..n -> Chars] : n \in 0..MaxLen} \cup {Undefined}

\* request bodies: every string of at most one character, and padded letters
JsonStrings ==
    {r \in RawStrings : Len(r) <= 1}
        \cup {<<" ", "A">>, <<"A", " ">>, <<" ", "B">>, <<"b", " ">>}
QueryStrings == {Undefined, <<>>, <<"a">>, <<"2">>, <<"C">>, <<" ", "b">>}

NextNorm ==
    \/ \E faction \in JsonStrings : PostFaction("s1", faction)
    \/ \E f \in RawStrings : GetBadgeFaction(f)
    \/ \E f \in QueryStrings, id \in 0..1 : GetBadge(f, id)

SpecNorm == Init /\ [][NextNorm]_vars

----------------------------------------------------------------------------
(* Claims about the HTTP server *)

UserIds(db) == {u.id : u \in db.users}
Valid == {<<"A">>, <<"B">>}

\* C3: a faction assignment whose input is not exactly "A" or "B" fails with
\* InvalidArgument (POST /api/faction: 400; setUserFaction: throws) and
\* changes nothing: no faction, no new guest record, no guest binding.
C3_InvalidFactionRejected ==
    [][ /\ (last'.op = "POST /api/faction" /\ last'.raw \notin Valid) =>
              /\ last'.status = 400
              /\ database' = database
              /\ \A s \in Sessions :
                    session'[s].guestUserId = session[s].guestUserId
        /\ \A id \in 0..(MaxAccounts + 1) :
              \A f \in (Factions \cup JsonInputs \cup {<<>>, <<"C">>}) \ Valid :
                 setUserFaction(database', id, f)
                    = [store |-> database', res |-> Throw("Invalid faction")]
      ]_vars

\* "a" was refused for a session whose guest already holds faction A
C3_Witness ==
    /\ last.op = "POST /api/faction"
    /\ last.raw = <<"a">>
    /\ last.status = 400
    /\ last.sess \in Sessions
    /\ session[last.sess].guestUserId # 0
    /\ getFactionByUserId(database, session[last.sess].guestUserId) = "A"

\* C4: an unauthenticated request whose session carries a guest id that no
\* stored user has is served with a newly created guest, bound into the
\* session: GET /api/me answers 200 with it and a valid POST /api/faction
\* records the faction on it.
C4_StaleGuestReplaced ==
    [][ \A s \in Sessions :
          (/\ last'.sess = s
           /\ \/ last'.op = "GET /api/me"
              \/ last'.op = "POST /api/faction" /\ last'.raw \in Valid
           /\ ~IsAuthenticated(database, session[s])
           /\ session[s].guestUserId # 0
           /\ getUserById(database, session[s].guestUserId) = None)
             => /\ last'.status = 200
                /\ last'.userId # 0
                /\ session'[s].guestUserId = last'.userId
                /\ getUserById(database', last'.userId) # None
                /\ last'.op = "POST /api/faction" =>
                      getFactionByUserId(database', last'.userId)
                         = StoreNormalized(last'.raw)
      ]_vars

\* C6: in an unauthenticated session the first GET /api/me creates exactly
\* one guest, binds its id and returns authenticated:false with it; later
\* GET /api/me and POST /api/faction requests of the session use the same id
\* and create no further guest, while the bound user is in the store.
C6_GuestIdStable ==
    [][ \A s \in Sessions :
          (/\ last'.sess = s
           /\ last'.op \in {"GET /api/me", "POST /api/faction"}
           /\ session[s].passportUser = 0)
             => /\ (session[s].guestUserId = 0 /\ last'.op = "GET /api/me") =>
                      /\ Cardinality(database'.users)
                            = Cardinality(database.users) + 1
                      /\ session'[s].guestUserId \notin UserIds(database)
                      /\ getUserById(database', session'[s].guestUserId)
                            = Some(Row(session'[s].guestUserId, Null, "Guest",
                                       Null, Null))
                      /\ last'.status = 200
                      /\ ~last'.authenticated
                      /\ last'.userId = session'[s].guestUserId
                /\ (/\ session[s].guestUserId # 0
                    /\ getUserById(database, session[s].guestUserId) # None) =>
                      /\ session'[s].guestUserId = session[s].guestUserId
                      /\ UserIds(database') = UserIds(database)
                      /\ last'.status = 200 =>
                            /\ ~last'.authenticated
                            /\ last'.userId = session[s].guestUserId
      ]_vars

\* both sessions hold their own guest and one has just set a faction on its own
C6_Witness ==
    /\ last.op = "POST /api/faction"
    /\ last.status = 200
    /\ ~last.authenticated
    /\ last.sess \in Sessions
    /\ last.userId = session[last.sess].guestUserId
    /\ \A s \in Sessions : session[s].guestUserId # 0 /\ session[s].passportUser = 0
    /\ session["s1"].guestUserId # session["s2"].guestUserId
    /\ Cardinality(database.users) = 2

AForms == {<<"a">>, <<"A">>, <<"1">>}
BForms == {<<"b">>, <<"B">>, <<"2">>}
Blanks(n) == [i \in 1..n |-> " "]
Padded(forms) ==
    {Blanks(i) \o c \o Blanks(j) : c \in forms, i \in 0..MaxLen, j \in 0..MaxLen}
LetterLookup(r) ==
    r.op = "GET /badge/faction" \/ (r.op = "GET /badge" /\ r.id = 0)

\* the JSON rule: exactly "A" and "B" are taken, everything else is refused
\* with 400 and leaves the store as it was
JsonRule ==
    (last'.op = "POST /api/faction") =>
        IF last'.raw \in Valid
        THEN /\ last'.status = 200
             /\ getFactionByUserId(database', last'.userId)
                   = StoreNormalized(last'.raw)
        ELSE last'.status = 400 /\ database' = database

\* C7 as stated: the badge lookup by letter maps "a", "A", "1" to A, "b",
\* "B", "2" to B and every other or missing value to unset; the JSON
\* assignment takes exactly "A" and "B".
C7_TwoRulesAsStated ==
    [][ /\ LetterLookup(last') =>
              last'.faction = IF last'.raw \in AForms THEN "A"
                              ELSE IF last'.raw \in BForms THEN "B" ELSE Null
        /\ JsonRule
      ]_vars

\* C7 amended: the badge lookup by letter drops blanks around the value before
\* it maps "a", "A", "1" to A and "b", "B", "2" to B, and maps every other or
\* missing value to unset; the JSON assignment takes exactly "A" and "B" and
\* refuses everything else, padded forms included, without changing the store.
C7_TwoRulesDistinct ==
    [][ /\ LetterLookup(last') =>
              /\ last'.faction = IF last'.raw \in Padded(AForms) THEN "A"
                                 ELSE IF last'.raw \in Padded(BForms) THEN "B"
                                 ELSE Null
              /\ last'.badge = renderBadgeSvg(last'.faction)
        /\ JsonRule
      ]_vars

\* a lower-case letter was looked up as B while the stored faction, set
\* through the JSON rule, is A
C7_Witness ==
    /\ last.op = "GET /badge/faction"
    /\ last.raw = <<"b">>
    /\ last.faction = "B"
    /\ \E u \in database.users : u.faction = "A"

====
